---------------------------- MODULE Spec2Model ----------------------------
(***************************************************************************)
(* A model of data_fetcher.py: the file cache (DataCache), the source      *)
(* adapters and the facade that sit on it, and the OHLCV aggregator.       *)
(*                                                                         *)
(* Time is the reading of time.time() in whole seconds.  A cache file is   *)
(* the sequence of JSON tokens json.dump wrote into it; json.load is a     *)
(* parser of that sequence, so a truncated or overwritten file fails to    *)
(* parse exactly when its tokens are no JSON document.                     *)
(***************************************************************************)
EXTENDS Integers, Sequences, FiniteSets, TLC

VARIABLES
    now,        \* time.time(), in seconds
    files,      \* the cache directory: file name -> the tokens of the file
    ret,        \* the last call: what was called, when, and what it returned
    written,    \* history: key -> the entry the last completed set(key, _) wrote
    calls,      \* the number of calls made so far
    procs       \* the calls of concurrent callers in flight: caller -> its position

vars == <<now, files, ret, written, calls, procs>>

----------------------------------------------------------------------------
(* Program constants *)

CACHE_EXPIRY_MINUTES == 5

SecondsPerMinute == 60

(* Bounds of the model *)

MaxTime == 598

MaxCalls == 3

MaxPoints == 3

----------------------------------------------------------------------------
(* Python and JSON values.  A dict keeps its keys in insertion order, as a *)
(* Python dict and the text json.dump writes both do.                      *)

PyNone == [t |-> "None"]

JNum(n) == [t |-> "num", n |-> n]

JStr(s) == [t |-> "str", s |-> s]

\* the string datetime.isoformat() renders for an instant: its seconds and microseconds
JIso(secs, micros) == [t |-> "iso", n |-> secs, us |-> micros]

JList(items) == [t |-> "list", items |-> items]

JDict(keys, vals) == [t |-> "dict", keys |-> keys, vals |-> vals]

\* d.get(key, default) of a dict: the value of the last member named key
DictGet(d, key, default) ==
    LET hits == {i \in 1..Len(d.keys) : d.keys[i] = key}
    IN  IF hits = {} THEN default
        ELSE d.vals[CHOOSE i \in hits : \A j \in hits : j <= i]

(* The tokens of a JSON text *)

Punct(c) == [k |-> c, s |-> "", n |-> 0, us |-> 0]

KeyTok(name) == [k |-> "key", s |-> name, n |-> 0, us |-> 0]

NumTok(n) == [k |-> "num", s |-> "", n |-> n, us |-> 0]

StrTok(s) == [k |-> "str", s |-> s, n |-> 0, us |-> 0]

IsoTok(secs, micros) == [k |-> "iso", s |-> "", n |-> secs, us |-> micros]

RECURSIVE JsonDumps(_)
RECURSIVE DumpItems(_, _)
RECURSIVE DumpMembers(_, _, _)

DumpItems(items, i) ==
    IF i > Len(items) THEN <<>>
    ELSE JsonDumps(items[i]) \o DumpItems(items, i + 1)

DumpMembers(keys, vals, i) ==
    IF i > Len(keys) THEN <<>>
    ELSE <<KeyTok(keys[i])>> \o JsonDumps(vals[i]) \o DumpMembers(keys, vals, i + 1)

\* json.dump(v, f): the tokens written, in order
JsonDumps(v) ==
    CASE v.t = "num"  -> <<NumTok(v.n)>>
      [] v.t = "str"  -> <<StrTok(v.s)>>
      [] v.t = "iso"  -> <<IsoTok(v.n, v.us)>>
      [] v.t = "None" -> <<Punct("null")>>
      [] v.t = "list" -> <<Punct("[")>> \o DumpItems(v.items, 1) \o <<Punct("]")>>
      [] v.t = "dict" -> <<Punct("{")>> \o DumpMembers(v.keys, v.vals, 1) \o <<Punct("}")>>

ParseFail == [ok |-> FALSE, val |-> PyNone, next |-> 0]

ParseOk(v, i) == [ok |-> TRUE, val |-> v, next |-> i]

RECURSIVE ParseValue(_, _)
RECURSIVE ParseItems(_, _, _)
RECURSIVE ParseMembers(_, _, _, _)

ParseItems(c, i, acc) ==
    IF i > Len(c) THEN ParseFail
    ELSE IF c[i].k = "]" THEN ParseOk(JList(acc), i + 1)
    ELSE LET r == ParseValue(c, i)
         IN  IF r.ok THEN ParseItems(c, r.next, Append(acc, r.val)) ELSE ParseFail

ParseMembers(c, i, keys, vals) ==
    IF i > Len(c) THEN ParseFail
    ELSE IF c[i].k = "}" THEN ParseOk(JDict(keys, vals), i + 1)
    ELSE IF c[i].k # "key" THEN ParseFail
    ELSE LET r == ParseValue(c, i + 1)
         IN  IF r.ok
             THEN ParseMembers(c, r.next, Append(keys, c[i].s), Append(vals, r.val))
             ELSE ParseFail

\* one JSON value read from position i of the token sequence c
ParseValue(c, i) ==
    IF i > Len(c) THEN ParseFail
    ELSE CASE c[i].k = "num"  -> ParseOk(JNum(c[i].n), i + 1)
           [] c[i].k = "str"  -> ParseOk(JStr(c[i].s), i + 1)
           [] c[i].k = "iso"  -> ParseOk(JIso(c[i].n, c[i].us), i + 1)
           [] c[i].k = "null" -> ParseOk(PyNone, i + 1)
           [] c[i].k = "["    -> ParseItems(c, i + 1, <<>>)
           [] c[i].k = "{"    -> ParseMembers(c, i + 1, <<>>, <<>>)
           [] OTHER           -> ParseFail

\* json.load(f): one value and nothing after it, or a JSONDecodeError
JsonLoads(c) ==
    LET r == ParseValue(c, 1)
    IN  IF r.ok /\ r.next = Len(c) + 1 THEN r ELSE ParseFail


----------------------------------------------------------------------------
(* DataCache *)

\* the cache keys the program builds
CacheKeys ==
    {"coingecko_current_price", "coingecko_market_data", "coingecko_historical_1d",
     "coingecko_historical_365d", "coinmarketcap_current_price", "coinmarketcap_info",
     "coinmarketcap_global_metrics", "ohlcv_1d", "ohlcv_7d", "ohlcv_30d",
     "coingecko_historical_7d", "coingecko_historical_30d",
     "ohlcv_1m", "ohlcv_5m", "ohlcv_15m", "ohlcv_30m", "ohlcv_1h", "ohlcv_4h"}

\* _get_cache_path: hashlib.md5(key.encode()).hexdigest() + ".json"
CachePath(key) ==
    CASE key = "coingecko_current_price"      -> "d863813acbbaefa4697ab59d085710ac.json"
      [] key = "coingecko_market_data"        -> "24fa2f134483b121972cafbea1f46676.json"
      [] key = "coingecko_historical_1d"      -> "e8b455e2e2836e742f18397bd781035b.json"
      [] key = "coingecko_historical_365d"    -> "bfb4e1ba9acb2db4576e6977e071d9e6.json"
      [] key = "coinmarketcap_current_price"  -> "67bdfa5bb17fe5d3d6806bc335526ab7.json"
      [] key = "coinmarketcap_info"           -> "a6d0926de0892acb896f64232540f19a.json"
      [] key = "coinmarketcap_global_metrics" -> "1db38d95c971e4d947deaa0433dd0707.json"
      [] key = "ohlcv_1d"                     -> "ea8a8185c012c47d37caed323fe367ec.json"
      [] key = "ohlcv_7d"                     -> "e1b8409185d07539934918ab10aa06a7.json"
      [] key = "ohlcv_30d"                    -> "f28e33a1eed2448f521694cbf7d83245.json"
      [] key = "coingecko_historical_7d"      -> "39bfb89ffce767c7e156cc37fca31ad2.json"
      [] key = "coingecko_historical_30d"     -> "bcfc230d5d0238bc9cf14dafc2666d6e.json"
      [] key = "ohlcv_1m"                     -> "e5f8911c22a68ebebf424172fa1e0297.json"
      [] key = "ohlcv_5m"                     -> "e31c47bb5c090fee806920d466284ed0.json"
      [] key = "ohlcv_15m"                    -> "67982177b8ea9a9c914c3f5cbea46ba5.json"
      [] key = "ohlcv_30m"                    -> "636a1c71d9122151f7cb9a39df44646d.json"
      [] key = "ohlcv_1h"                     -> "6421b4429de109fefbf21f1b4b9677ac.json"
      [] key = "ohlcv_4h"                     -> "1c11bc526b977faf0e26283a1e30ae04.json"

\* the expiry window in seconds: CACHE_EXPIRY_MINUTES minutes
ExpiryWindow == CACHE_EXPIRY_MINUTES * SecondsPerMinute

\* a cache that still serves an entry exactly one window old
CacheIsValidInclusive(t, timestamp) ==
    (t - timestamp) <= CACHE_EXPIRY_MINUTES * SecondsPerMinute

\* age_minutes < CACHE_EXPIRY_MINUTES, where age_minutes = (time.time() - timestamp) / 60
\* is a true division: the comparison cleared of its denominator
CacheIsValid(t, timestamp) == (t - timestamp) < CACHE_EXPIRY_MINUTES * SecondsPerMinute

\* no call made yet
NoCall == [op |-> "none"]

Returns(v) == [raised |-> FALSE, val |-> v]

Raises == [raised |-> TRUE, val |-> PyNone]

\* what the file system does to one get: nothing, or an error at one of its steps
\* stat_raises: os.stat fails with an error Path.exists() passes on (EACCES, EIO, ...);
\* stat_ignored: it fails with one exists() answers False to (ENOTDIR, ELOOP, ...)
GetFaults == {"ok", "stat_raises", "stat_ignored", "open_error", "read_error"}

\* DataCache.get(key) at time t on the directory fs.  cache_path.exists() runs before
\* the try block; open and json.load run inside it.
CacheGet(fs, key, t, io) ==
    LET p == CachePath(key)
    IN  IF io = "stat_raises" THEN Raises
        ELSE IF p \notin DOMAIN fs \/ io = "stat_ignored" THEN Returns(PyNone)
        ELSE IF io \in {"open_error", "read_error"} THEN Returns(PyNone)
        ELSE LET r == JsonLoads(fs[p])
             IN  IF ~r.ok THEN Returns(PyNone)
                 ELSE IF r.val.t # "dict" THEN Returns(PyNone)
                 ELSE LET timestamp == DictGet(r.val, "timestamp", JNum(0))
                      IN  IF timestamp.t # "num" THEN Returns(PyNone)
                          ELSE IF CacheIsValid(t, timestamp.n)
                               THEN Returns(DictGet(r.val, "data", PyNone))
                               ELSE Returns(PyNone)

\* a write that leaves an existing file as it is
PutFileKeepOld(fs, p, content) ==
    [q \in DOMAIN fs \cup {p} |-> IF q = p /\ p \notin DOMAIN fs THEN content ELSE fs[q]]

\* a write that lands in every file of the directory
PutFileEverywhere(fs, p, content) == [q \in DOMAIN fs \cup {p} |-> content]

\* the directory fs with file p holding content
PutFile(fs, p, content) ==
    [q \in DOMAIN fs \cup {p} |-> IF q = p THEN content ELSE fs[q]]

\* the directory fs without the files of gone
RemoveFiles(fs, gone) == [q \in DOMAIN fs \ gone |-> fs[q]]

\* the tokens set writes: json.dump({'timestamp': time.time(), 'data': data}, f)
CacheRecord(data, t) == JsonDumps(JDict(<<"timestamp", "data">>, <<JNum(t), data>>))

IoOk == [kind |-> "ok", n |-> 0]

\* what the file system does to one set: nothing, open(path, 'w') fails, or the
\* write fails after n tokens reached the truncated file (none, the timestamp, or all
\* but the closing brace)
SetFaults(data, t) ==
    {IoOk, [kind |-> "open_error", n |-> 0]}
        \cup {[kind |-> "write_error", n |-> n] : n \in {0, 3, Len(CacheRecord(data, t)) - 1}}

\* DataCache.set(key, data) at time t: the directory afterwards
CacheSet(fs, key, data, t, io) ==
    LET p == CachePath(key)
    IN  CASE io.kind = "ok"          -> PutFile(fs, p, CacheRecord(data, t))
          [] io.kind = "open_error"  -> fs
          [] io.kind = "write_error" -> PutFile(fs, p, SubSeq(CacheRecord(data, t), 1, io.n))

\* the orders in which glob("*.json") may list the files of S
GlobOrders(S) ==
    {o \in [1..Cardinality(S) -> S] : \A p \in S : \E i \in 1..Cardinality(S) : o[i] = p}

\* a clear that leaves the file the glob lists last
CacheClearSparing(fs, order, failing) ==
    RemoveFiles(fs, {order[i] : i \in 1..(Len(order) - 1)})

\* DataCache.clear(): file.unlink() for each file of the glob, in its order; the first
\* unlink that raises (a file of failing) ends the loop in the except clause
CacheClear(fs, order, failing) ==
    RemoveFiles(fs, {order[i] : i \in {j \in 1..Len(order) :
                                         \A h \in 1..j : order[h] \notin failing}})

----------------------------------------------------------------------------
(* History: the entry each key's last completed set wrote *)

WrittenAfterSet(w, fs, key, data, t, io) ==
    CASE io.kind = "ok" ->
            [k \in DOMAIN w \cup {key} |->
                IF k = key
                THEN [at |-> t, data |-> data, read |-> FALSE,
                      replaced |-> key \in DOMAIN w /\ w[key].data # data]
                ELSE w[k]]
      [] io.kind = "open_error"  -> w
      [] io.kind = "write_error" -> [k \in DOMAIN w \ {key} |-> w[k]]

WrittenAfterGet(w, key, r) ==
    IF key \in DOMAIN w /\ ~r.raised /\ r.val = w[key].data
    THEN [w EXCEPT ![key].read = TRUE]
    ELSE w

WrittenAfterClear(w, fsAfter) ==
    [k \in {h \in DOMAIN w : CachePath(h) \in DOMAIN fsAfter} |-> w[k]]

----------------------------------------------------------------------------
(* The cache store called directly *)

\* keys and payloads of the direct calls
StoreKeys == {"coingecko_current_price", "ohlcv_1d"}

Payloads ==
    {JDict(<<"source", "data">>, <<JStr("coingecko"), JList(<<JNum(50000)>>)>>),
     JDict(<<"source", "data">>,
           <<JStr("coinmarketcap"), JList(<<JNum(50000), JNum(51000)>>)>>)}

\* the clock moves by one expiry window or by one second less
TickSteps == {ExpiryWindow - 1, ExpiryWindow}

Tick(d) ==
    /\ now + d <= MaxTime
    /\ now' = now + d
    /\ UNCHANGED <<files, ret, written, calls, procs>>

\* a get that unlinks the file of an entry it finds expired
GetCallEvicting(key, io) ==
    LET r == CacheGet(files, key, now, io)
    IN  /\ ret' = [op |-> "get", key |-> key, at |-> now, io |-> io,
                   raised |-> r.raised, val |-> r.val]
        /\ written' = WrittenAfterGet(written, key, r)
        /\ files' = IF r.val = PyNone THEN RemoveFiles(files, {CachePath(key)}) ELSE files
        /\ UNCHANGED <<now, calls, procs>>

GetCall(key, io) ==
    LET r == CacheGet(files, key, now, io)
    IN  /\ ret' = [op |-> "get", key |-> key, at |-> now, io |-> io,
                   raised |-> r.raised, val |-> r.val]
        /\ written' = WrittenAfterGet(written, key, r)
        /\ UNCHANGED <<now, files, calls, procs>>

SetCall(key, data, io) ==
    /\ files' = CacheSet(files, key, data, now, io)
    /\ ret' = [op |-> "set", key |-> key, at |-> now, io |-> io.kind,
               raised |-> FALSE, data |-> data]
    /\ written' = WrittenAfterSet(written, files, key, data, now, io)
    /\ UNCHANGED <<now, calls, procs>>

ClearCall(order, failing) ==
    /\ files' = CacheClear(files, order, failing)
    /\ ret' = [op |-> "clear", at |-> now, io |-> IF failing = {} THEN "ok" ELSE "unlink_error",
               raised |-> FALSE, before |-> DOMAIN files, failing |-> failing]
    /\ written' = WrittenAfterClear(written, CacheClear(files, order, failing))
    /\ UNCHANGED <<now, calls, procs>>

Init ==
    /\ now = 0
    /\ files = <<>>
    /\ ret = NoCall
    /\ written = <<>>
    /\ calls = 0
    /\ procs = <<>>

NextCache ==
    \/ \E key \in StoreKeys : GetCall(key, "ok")
    \/ \E key \in StoreKeys, data \in Payloads : SetCall(key, data, IoOk)
    \/ \E order \in GlobOrders(DOMAIN files) : ClearCall(order, {})
    \/ \E d \in TickSteps : Tick(d)

SpecCache == Init /\ [][NextCache]_vars


(* The cache store on a file system that fails *)

NextFault ==
    \/ \E key \in StoreKeys, io \in GetFaults : GetCall(key, io)
    \/ \E key \in StoreKeys, data \in Payloads :
            \E io \in SetFaults(data, now) : SetCall(key, data, io)
    \/ \E order \in GlobOrders(DOMAIN files), failing \in SUBSET DOMAIN files :
            ClearCall(order, failing)
    \/ \E d \in TickSteps : Tick(d)

SpecFault == Init /\ [][NextFault]_vars

----------------------------------------------------------------------------
(* TimeframeDataHandler: the aggregator *)

TIMEFRAMES ==
    [label \in {"1m", "5m", "15m", "30m", "1h", "4h", "1d", "7d", "30d"} |->
        CASE label = "1m"  -> 1
          [] label = "5m"  -> 5
          [] label = "15m" -> 15
          [] label = "30m" -> 30
          [] label = "1h"  -> 60
          [] label = "4h"  -> 240
          [] label = "1d"  -> 1440
          [] label = "7d"  -> 10080
          [] label = "30d" -> 43200]

Max(a, b) == IF a >= b THEN a ELSE b

Min(a, b) == IF a <= b THEN a ELSE b

\* (timestamp // timeframe_seconds) * timeframe_seconds: // floors, as \div does
Bucket(timestamp, timeframe_seconds) ==
    (timestamp \div timeframe_seconds) * timeframe_seconds

\* aggregated[bucket] = {...}: the accumulator a bucket's first point creates
NewBucket(bucket, price) ==
    [timestamp |-> bucket, open |-> price, high |-> price, low |-> price,
     close |-> price, volume |-> 0, count |-> 0]

\* an update that forgets the close
UpdateBucketKeepClose(acc, price) ==
    [acc EXCEPT !.high = Max(acc.high, price), !.low = Min(acc.low, price)]

\* an update with max and min exchanged
UpdateBucketSwapped(acc, price) ==
    [acc EXCEPT !.high = Min(acc.high, price), !.low = Max(acc.low, price),
                !.close = price]

\* the else branch: high, low and close of a bucket that exists
UpdateBucket(acc, price) ==
    [acc EXCEPT !.high = Max(acc.high, price), !.low = Min(acc.low, price),
                !.close = price]

\* the position of bucket in the dict (a sequence in insertion order), 0 if absent
BucketIndex(aggregated, bucket) ==
    IF \E j \in 1..Len(aggregated) : aggregated[j].timestamp = bucket
    THEN CHOOSE j \in 1..Len(aggregated) : aggregated[j].timestamp = bucket
    ELSE 0

RECURSIVE AggregateLoop(_, _, _, _)

\* for timestamp, price in prices: ... aggregated[bucket]["count"] += 1
AggregateLoop(prices, i, timeframe_seconds, aggregated) ==
    IF i > Len(prices) THEN aggregated
    ELSE LET timestamp == prices[i][1]
             price == prices[i][2]
             bucket == Bucket(timestamp, timeframe_seconds)
             j == BucketIndex(aggregated, bucket)
             touched ==
                 IF j = 0
                 THEN Append(aggregated, NewBucket(bucket, price))
                 ELSE [aggregated EXCEPT ![j] = UpdateBucket(aggregated[j], price)]
             at == IF j = 0 THEN Len(aggregated) + 1 ELSE j
         IN  AggregateLoop(prices, i + 1, timeframe_seconds,
                           [touched EXCEPT ![at].count = @ + 1])

RECURSIVE InsertByTimestamp(_, _)

\* x put into the ascending sequence sorted, after the items not greater than it
InsertByTimestamp(sorted, x) ==
    IF sorted = <<>> THEN <<x>>
    ELSE IF Head(sorted).timestamp <= x.timestamp
         THEN <<Head(sorted)>> \o InsertByTimestamp(Tail(sorted), x)
         ELSE <<x>> \o sorted

RECURSIVE SortLoop(_, _, _)

SortLoop(values, i, sorted) ==
    IF i > Len(values) THEN sorted
    ELSE SortLoop(values, i + 1, InsertByTimestamp(sorted, values[i]))

\* the dict's values as they are, in insertion order
Unsorted(values) == values

\* sorted(aggregated.values(), key=lambda x: x["timestamp"]): a stable sort
SortedByTimestamp(values) == SortLoop(values, 1, <<>>)

\* an unknown label taken for one minute
AggregateDefaulting(prices, timeframe) ==
    SortedByTimestamp(AggregateLoop(prices, 1,
        (IF timeframe \in DOMAIN TIMEFRAMES THEN TIMEFRAMES[timeframe] ELSE 1)
            * SecondsPerMinute, <<>>))

\* aggregate_to_timeframe(prices, timeframe)
AggregateToTimeframe(prices, timeframe) ==
    IF timeframe \notin DOMAIN TIMEFRAMES THEN <<>>
    ELSE SortedByTimestamp(
            AggregateLoop(prices, 1, TIMEFRAMES[timeframe] * SecondsPerMinute, <<>>))

\* a volume read from the timestamp column of the pair
VolumeAtColumn0(volumes, i) ==
    IF i <= Len(volumes.items) THEN volumes.items[i].items[1] ELSE JNum(0)

\* volumes[i][1] if i < len(volumes) else 0, for the i-th point counted from 1
VolumeAt(volumes, i) ==
    IF i <= Len(volumes.items) THEN volumes.items[i].items[2] ELSE JNum(0)

\* datetime.fromtimestamp(timestamp / 1000).isoformat() of a time in milliseconds
IsoOfMillis(timestamp) == JIso(timestamp \div 1000, (timestamp % 1000) * 1000)

\* the candle of the i-th point
PointCandle(prices, volumes, i) ==
    LET price == prices.items[i].items[2]
    IN  JDict(<<"timestamp", "open", "high", "low", "close", "volume">>,
              <<IsoOfMillis(prices.items[i].items[1].n), price, price, price, price,
                VolumeAt(volumes, i)>>)

\* _process_historical_to_ohlcv(data)
ProcessHistoricalToOhlcv(data) ==
    LET prices == DictGet(data, "prices", JList(<<>>))
        volumes == DictGet(data, "volumes", JList(<<>>))
    IN  JList([i \in 1..Len(prices.items) |-> PointCandle(prices, volumes, i)])

(* The aggregator called directly *)

Timestamps == {-1, 0, 1800, 3600}

Prices == {90, 100, 110}

PriceSeries == UNION {[1..n -> Timestamps \X Prices] : n \in 0..MaxPoints}

TimeframeLabels == DOMAIN TIMEFRAMES \cup {"2h"}

\* [timestampMillis, value] pairs as the upstream JSON carries them
JPair(a, b) == JList(<<JNum(a), JNum(b)>>)

JSeries(S) == {JList(q) : q \in UNION {[1..n -> S] : n \in 0..MaxPoints}}

HistoricalInputs ==
    LET P == JSeries({JPair(t, p) : t \in {-1, 1000}, p \in {2, 50000}})
        V == JSeries({JPair(1000, v) : v \in {7, 9}})
    IN  {JDict(<<"prices">>, <<ps>>) : ps \in P}
            \cup {JDict(<<"volumes">>, <<vs>>) : vs \in V}
            \cup {JDict(<<"prices", "volumes">>, <<ps, vs>>) : ps \in P, vs \in V}

AggregateCall(prices, timeframe) ==
    /\ ret' = [op |-> "aggregate_to_timeframe", prices |-> prices, timeframe |-> timeframe,
               raised |-> FALSE, val |-> AggregateToTimeframe(prices, timeframe)]
    /\ UNCHANGED <<now, files, written, calls, procs>>

ProcessCall(data) ==
    /\ ret' = [op |-> "_process_historical_to_ohlcv", data |-> data,
               raised |-> FALSE, val |-> ProcessHistoricalToOhlcv(data)]
    /\ UNCHANGED <<now, files, written, calls, procs>>

\* one call of a pure function per behaviour
AggregateStep ==
    /\ ret = NoCall
    /\ \E prices \in PriceSeries, timeframe \in TimeframeLabels :
            AggregateCall(prices, timeframe)

ProcessStep ==
    /\ ret = NoCall
    /\ \E data \in HistoricalInputs : ProcessCall(data)

NextAgg == AggregateStep \/ ProcessStep

SpecAgg == Init /\ [][NextAgg]_vars

----------------------------------------------------------------------------
(* The source adapters and the facade *)

\* the price the providers quote at time t
PriceAt(t) == 50000 + t

\* [timestampMillis, value]
MillisPair(t, v) == JList(<<JNum(t * 1000), JNum(v)>>)

\* response.json() of a request answered at time t
UpstreamBody(endpoint, t) ==
    CASE endpoint = "/simple/price" ->
            JDict(<<"bitcoin">>, <<JDict(<<"usd">>, <<JNum(PriceAt(t))>>)>>)
      [] endpoint = "/coins/bitcoin" ->
            JDict(<<"id", "symbol", "name", "market_data">>,
                  <<JStr("bitcoin"), JStr("btc"), JStr("Bitcoin"),
                    JDict(<<"current_price">>, <<JNum(PriceAt(t))>>)>>)
      [] endpoint = "/coins/bitcoin/market_chart" ->
            JDict(<<"prices", "market_caps", "volumes">>,
                  <<JList(<<MillisPair(t, PriceAt(t))>>), JList(<<>>),
                    JList(<<MillisPair(t, 7)>>)>>)
      [] endpoint = "/cryptocurrency/quotes/latest" ->
            JDict(<<"data">>, <<JDict(<<"BTC">>, <<JDict(<<"price">>, <<JNum(PriceAt(t))>>)>>)>>)
      [] endpoint = "/cryptocurrency/info" ->
            JDict(<<"data">>, <<JDict(<<"BTC">>, <<JDict(<<"name">>, <<JStr("Bitcoin")>>)>>)>>)
      [] endpoint = "/global-metrics/quotes/latest" ->
            JDict(<<"data">>, <<JDict(<<"total_market_cap">>, <<JNum(PriceAt(t))>>)>>)

\* a request succeeds, or raises a RequestException (network, timeout, raise_for_status)
UpstreamOutcomes == {"ok", "error"}

EmptyDict == JDict(<<>>, <<>>)

\* bool(v), as "if cached:" and "if data:" take it
Truthy(v) ==
    CASE v.t = "None" -> FALSE
      [] v.t = "dict" -> Len(v.keys) > 0
      [] v.t = "list" -> Len(v.items) > 0
      [] v.t = "num"  -> v.n # 0
      [] v.t = "str"  -> v.s # ""
      [] v.t = "iso"  -> TRUE

\* the outcome of an adapter method: what it returns or raises, the directory and the
\* history afterwards, and the upstream requests it made
Outcome(key, raised, val, fs, w, requests) ==
    [key |-> key, raised |-> raised, val |-> val, files |-> fs, written |-> w,
     requests |-> requests]

\* an adapter that asks upstream without looking into the cache
AlwaysFetch(fs, w, t, key, up, result, gio, sio) ==
    IF up = "ok"
    THEN Outcome(key, FALSE, result, CacheSet(fs, key, result, t, sio),
                 WrittenAfterSet(w, fs, key, result, t, sio), 1)
    ELSE Outcome(key, FALSE, PyNone, fs, w, 1)

\* an adapter that caches the failure of the upstream request under the key
CacheAsideStoringFailure(fs, w, t, key, up, result, gio, sio) ==
    LET cached == CacheGet(fs, key, t, gio)
    IN  IF cached.raised THEN Outcome(key, TRUE, PyNone, fs, w, 0)
        ELSE IF Truthy(cached.val)
             THEN Outcome(key, FALSE, cached.val, fs, WrittenAfterGet(w, key, cached), 0)
        ELSE IF up = "ok"
             THEN Outcome(key, FALSE, result, CacheSet(fs, key, result, t, sio),
                          WrittenAfterSet(w, fs, key, result, t, sio), 1)
        ELSE Outcome(key, FALSE, PyNone, CacheSet(fs, key, EmptyDict, t, sio),
                     WrittenAfterSet(w, fs, key, EmptyDict, t, sio), 1)

\* an adapter that asks upstream a second time when the first request fails
CacheAsideRetrying(fs, w, t, key, up, result, gio, sio) ==
    LET cached == CacheGet(fs, key, t, gio)
    IN  IF cached.raised THEN Outcome(key, TRUE, PyNone, fs, w, 0)
        ELSE IF Truthy(cached.val)
             THEN Outcome(key, FALSE, cached.val, fs, WrittenAfterGet(w, key, cached), 0)
        ELSE IF up = "ok"
             THEN Outcome(key, FALSE, result, CacheSet(fs, key, result, t, sio),
                          WrittenAfterSet(w, fs, key, result, t, sio), 1)
        ELSE Outcome(key, FALSE, PyNone, fs, w, 2)

\* the body the adapter methods share: cached = cache.get(cache_key); if cached: return
\* cached; try: request, build result, cache.set(cache_key, result), return result;
\* except RequestException: return None.  gio and sio are what the file system does to
\* the get and to the set.
CacheAside(fs, w, t, key, up, result, gio, sio) ==
    LET cached == CacheGet(fs, key, t, gio)
    IN  IF cached.raised THEN Outcome(key, TRUE, PyNone, fs, w, 0)
        ELSE IF Truthy(cached.val)
             THEN Outcome(key, FALSE, cached.val, fs, WrittenAfterGet(w, key, cached), 0)
        ELSE IF up = "ok"
             THEN Outcome(key, FALSE, result, CacheSet(fs, key, result, t, sio),
                          WrittenAfterSet(w, fs, key, result, t, sio), 1)
        ELSE Outcome(key, FALSE, PyNone, fs, w, 1)

\* datetime.utcnow().isoformat()
UtcNowIso(t) == JIso(t, 0)

\* CoinGeckoFetcher.get_current_price
CoinGeckoCurrentPrice(fs, w, t, up, gio, sio) ==
    CacheAside(fs, w, t, "coingecko_current_price", up,
        JDict(<<"source", "timestamp", "data">>,
              <<JStr("coingecko"), UtcNowIso(t),
                DictGet(UpstreamBody("/simple/price", t), "bitcoin", EmptyDict)>>),
        gio, sio)

\* CoinGeckoFetcher.get_market_data
CoinGeckoMarketData(fs, w, t, up, gio, sio) ==
    LET data == UpstreamBody("/coins/bitcoin", t)
    IN  CacheAside(fs, w, t, "coingecko_market_data", up,
            JDict(<<"source", "timestamp", "data">>,
                  <<JStr("coingecko"), UtcNowIso(t),
                    JDict(<<"id", "symbol", "name", "market_data">>,
                          <<DictGet(data, "id", PyNone), DictGet(data, "symbol", PyNone),
                            DictGet(data, "name", PyNone),
                            DictGet(data, "market_data", EmptyDict)>>)>>),
            gio, sio)

\* f"coingecko_historical_{days}d"
HistoricalKey(days) ==
    CASE days = 1   -> "coingecko_historical_1d"
      [] days = 7   -> "coingecko_historical_7d"
      [] days = 30  -> "coingecko_historical_30d"
      [] days = 365 -> "coingecko_historical_365d"

\* CoinGeckoFetcher.get_historical_data: days = min(days, 365)
CoinGeckoHistoricalData(fs, w, t, days, up, gio, sio) ==
    LET data == UpstreamBody("/coins/bitcoin/market_chart", t)
        capped == Min(days, 365)
    IN  CacheAside(fs, w, t, HistoricalKey(capped), up,
            JDict(<<"source", "timestamp", "days", "prices", "market_caps", "volumes">>,
                  <<JStr("coingecko"), UtcNowIso(t), JNum(capped),
                    DictGet(data, "prices", JList(<<>>)),
                    DictGet(data, "market_caps", JList(<<>>)),
                    DictGet(data, "volumes", JList(<<>>))>>),
            gio, sio)

\* CoinMarketCapFetcher.get_current_price
CoinMarketCapCurrentPrice(fs, w, t, up, gio, sio) ==
    CacheAside(fs, w, t, "coinmarketcap_current_price", up,
        JDict(<<"source", "timestamp", "data">>,
              <<JStr("coinmarketcap"), UtcNowIso(t),
                DictGet(DictGet(UpstreamBody("/cryptocurrency/quotes/latest", t),
                                "data", EmptyDict), "BTC", EmptyDict)>>),
        gio, sio)

\* CoinMarketCapFetcher.get_cryptocurrency_info
CoinMarketCapInfo(fs, w, t, up, gio, sio) ==
    CacheAside(fs, w, t, "coinmarketcap_info", up,
        JDict(<<"source", "timestamp", "data">>,
              <<JStr("coinmarketcap"), UtcNowIso(t),
                DictGet(DictGet(UpstreamBody("/cryptocurrency/info", t),
                                "data", EmptyDict), "BTC", EmptyDict)>>),
        gio, sio)

\* CoinMarketCapFetcher.get_global_metrics
CoinMarketCapGlobalMetrics(fs, w, t, up, gio, sio) ==
    CacheAside(fs, w, t, "coinmarketcap_global_metrics", up,
        JDict(<<"source", "timestamp", "data">>,
              <<JStr("coinmarketcap"), UtcNowIso(t),
                DictGet(UpstreamBody("/global-metrics/quotes/latest", t),
                        "data", EmptyDict)>>),
        gio, sio)

\* the days = {...}.get(timeframe, 1) of get_ohlcv_data
OhlcvDays(timeframe) ==
    CASE timeframe = "1d"  -> 1
      [] timeframe = "7d"  -> 7
      [] timeframe = "30d" -> 30
      [] OTHER             -> 1

\* f"ohlcv_{timeframe}"
OhlcvKey(timeframe) ==
    CASE timeframe = "1d"  -> "ohlcv_1d"
      [] timeframe = "7d"  -> "ohlcv_7d"
      [] timeframe = "30d" -> "ohlcv_30d"
      [] timeframe = "1h"  -> "ohlcv_1h"
      [] timeframe = "1m"  -> "ohlcv_1m"
      [] timeframe = "5m"  -> "ohlcv_5m"
      [] timeframe = "15m" -> "ohlcv_15m"
      [] timeframe = "30m" -> "ohlcv_30m"
      [] timeframe = "4h"  -> "ohlcv_4h"


\* TimeframeDataHandler.get_ohlcv_data
GetOhlcvData(fs, w, t, timeframe, up, gio, sio) ==
    IF timeframe \notin DOMAIN TIMEFRAMES THEN Outcome("", FALSE, PyNone, fs, w, 0)
    ELSE
    LET key == OhlcvKey(timeframe)
        cached == CacheGet(fs, key, t, gio)
    IN  IF cached.raised THEN Outcome(key, TRUE, PyNone, fs, w, 0)
        ELSE IF Truthy(cached.val)
             THEN Outcome(key, FALSE, cached.val, fs, WrittenAfterGet(w, key, cached), 0)
        ELSE IF timeframe \in {"1d", "7d", "30d"}
             THEN LET h == CoinGeckoHistoricalData(fs, w, t, OhlcvDays(timeframe),
                                                   up, gio, sio)
                      result == JDict(<<"source", "timeframe", "timestamp", "ohlcv">>,
                                      <<JStr("coingecko"), JStr(timeframe), UtcNowIso(t),
                                        ProcessHistoricalToOhlcv(h.val)>>)
                  IN  IF h.raised   \* except Exception: return None
                      THEN Outcome(key, FALSE, PyNone, h.files, h.written, h.requests)
                      ELSE IF Truthy(h.val)
                           THEN Outcome(key, FALSE, result,
                                        CacheSet(h.files, key, result, t, sio),
                                        WrittenAfterSet(h.written, h.files, key, result, t, sio),
                                        h.requests)
                           ELSE Outcome(key, FALSE, PyNone, h.files, h.written, h.requests)
        ELSE Outcome(key, FALSE, PyNone, fs, w, 0)

\* a get_bitcoin_price that sends every unknown source to CoinGecko
GetBitcoinPriceDefaulting(fs, w, t, source, up, gio, sio) ==
    IF source = "coinmarketcap" THEN CoinMarketCapCurrentPrice(fs, w, t, up, gio, sio)
    ELSE CoinGeckoCurrentPrice(fs, w, t, up, gio, sio)

\* DataFetcher.get_bitcoin_price
GetBitcoinPrice(fs, w, t, source, up, gio, sio) ==
    IF source = "coingecko" THEN CoinGeckoCurrentPrice(fs, w, t, up, gio, sio)
    ELSE IF source = "coinmarketcap" THEN CoinMarketCapCurrentPrice(fs, w, t, up, gio, sio)
    ELSE Outcome("", FALSE, PyNone, fs, w, 0)

\* DataFetcher.get_market_data
GetMarketData(fs, w, t, source, up, gio, sio) ==
    IF source = "coingecko" THEN CoinGeckoMarketData(fs, w, t, up, gio, sio)
    ELSE IF source = "coinmarketcap" THEN CoinMarketCapInfo(fs, w, t, up, gio, sio)
    ELSE Outcome("", FALSE, PyNone, fs, w, 0)

\* DataFetcher.get_historical_data
GetHistoricalData(fs, w, t, days, source, up, gio, sio) ==
    IF source = "coingecko" THEN CoinGeckoHistoricalData(fs, w, t, days, up, gio, sio)
    ELSE Outcome("", FALSE, PyNone, fs, w, 0)

\* DataFetcher.get_ohlcv
GetOhlcv(fs, w, t, timeframe, up, gio, sio) == GetOhlcvData(fs, w, t, timeframe, up, gio, sio)

\* DataFetcher.get_global_metrics
GetGlobalMetrics(fs, w, t, up, gio, sio) == CoinMarketCapGlobalMetrics(fs, w, t, up, gio, sio)

(* The calls of the facade *)

Sources == {"coingecko", "coinmarketcap", "binance"}

DaysInputs == {1, 400}

OhlcvInputs == {"1d", "1h", "2h"}

\* one call of the facade: its outcome o becomes the state
FacadeCall(op, arg, up, o) ==
    /\ calls < MaxCalls
    /\ calls' = calls + 1
    /\ files' = o.files
    /\ written' = o.written
    /\ ret' = [op |-> op, arg |-> arg, key |-> o.key, at |-> now,
               up |-> IF o.requests = 0 THEN "none" ELSE up,
               raised |-> o.raised, val |-> o.val, requests |-> o.requests]
    /\ UNCHANGED <<now, procs>>

GetBitcoinPriceCall(source, up) ==
    FacadeCall("get_bitcoin_price", <<source>>, up,
               GetBitcoinPrice(files, written, now, source, up, "ok", IoOk))

GetMarketDataCall(source, up) ==
    FacadeCall("get_market_data", <<source>>, up,
               GetMarketData(files, written, now, source, up, "ok", IoOk))

GetHistoricalDataCall(days, source, up) ==
    FacadeCall("get_historical_data", <<source>>, up,
               GetHistoricalData(files, written, now, days, source, up, "ok", IoOk))

GetOhlcvCall(timeframe, up) ==
    FacadeCall("get_ohlcv", <<timeframe>>, up,
               GetOhlcv(files, written, now, timeframe, up, "ok", IoOk))

GetGlobalMetricsCall(up) ==
    FacadeCall("get_global_metrics", <<>>, up,
               GetGlobalMetrics(files, written, now, up, "ok", IoOk))

\* DataFetcher.clear_cache
ClearCacheCall(order) ==
    /\ calls < MaxCalls
    /\ calls' = calls + 1
    /\ files' = CacheClear(files, order, {})
    /\ written' = WrittenAfterClear(written, CacheClear(files, order, {}))
    /\ ret' = [op |-> "clear_cache", arg |-> <<>>, key |-> "", at |-> now, up |-> "none",
               raised |-> FALSE, val |-> PyNone, requests |-> 0,
               removed |-> Cardinality(DOMAIN files \ DOMAIN CacheClear(files, order, {}))]
    /\ UNCHANGED <<now, procs>>

Next ==
    \/ \E source \in Sources, up \in UpstreamOutcomes : GetBitcoinPriceCall(source, up)
    \/ \E source \in Sources, up \in UpstreamOutcomes : GetMarketDataCall(source, up)
    \/ \E days \in DaysInputs, source \in Sources, up \in UpstreamOutcomes :
            GetHistoricalDataCall(days, source, up)
    \/ \E timeframe \in OhlcvInputs, up \in UpstreamOutcomes : GetOhlcvCall(timeframe, up)
    \/ \E up \in UpstreamOutcomes : GetGlobalMetricsCall(up)
    \/ \E order \in GlobOrders(DOMAIN files) : ClearCacheCall(order)
    \/ \E d \in TickSteps : Tick(d)

Spec == Init /\ [][Next]_vars

-----------------------------------------------------------------------------
(* The facade while the cache storage is failing *)

\* what a failing storage does to a read: the stat, the open or the read fails, or
\* the file is not there or holds what a failed write left
OutageGets == GetFaults

\* what it does to a write: open(path, 'w') fails, or the write fails after the
\* truncation or after the first tokens
OutageSets ==
    {[kind |-> "open_error", n |-> 0], [kind |-> "write_error", n |-> 0],
     [kind |-> "write_error", n |-> 3]}

\* one call of the facade during the outage
OutageCall(op, arg, up, gio, sio, o) ==
    /\ calls < MaxCalls
    /\ calls' = calls + 1
    /\ files' = o.files
    /\ written' = o.written
    /\ ret' = [op |-> op, arg |-> arg, key |-> o.key, at |-> now, up |-> up,
               gio |-> gio, sio |-> sio.kind,
               raised |-> o.raised, val |-> o.val, requests |-> o.requests]
    /\ UNCHANGED <<now, procs>>

OutageBitcoinPriceCall(source, up, gio, sio) ==
    OutageCall("get_bitcoin_price", <<source>>, up, gio, sio,
               GetBitcoinPrice(files, written, now, source, up, gio, sio))

OutageOhlcvCall(timeframe, up, gio, sio) ==
    OutageCall("get_ohlcv", <<timeframe>>, up, gio, sio,
               GetOhlcv(files, written, now, timeframe, up, gio, sio))

NextOutage ==
    \/ \E source \in Sources, up \in UpstreamOutcomes, gio \in OutageGets,
          sio \in OutageSets : OutageBitcoinPriceCall(source, up, gio, sio)
    \/ \E timeframe \in OhlcvInputs, up \in UpstreamOutcomes, gio \in OutageGets,
          sio \in OutageSets : OutageOhlcvCall(timeframe, up, gio, sio)
    \/ \E d \in TickSteps : Tick(d)

SpecOutage == Init /\ [][NextOutage]_vars

-----------------------------------------------------------------------------
(* Concurrent callers of the cache store.  A call is a sequence of system    *)
(* calls; the calls of different callers interleave between them.            *)

\* the most tokens a buffered text file hands to one write(2)
ChunkTokens == 7

RaceKey == "coingecko_current_price"

\* two payloads of one shape and one that is longer
RacePayloads ==
    Payloads \cup {JDict(<<"source", "data">>, <<JStr("coinmarketcap"), JList(<<JNum(51000)>>)>>)}

Writers == {"w1", "w2"}

\* what a hole of a file reads as
NulTok == Punct("NUL")

\* write(2) of chunk at offset off of a file that holds content
WriteAt(content, off, chunk) ==
    [i \in 1..Max(Len(content), off + Len(chunk)) |->
        IF i > off /\ i <= off + Len(chunk) THEN chunk[i - off]
        ELSE IF i <= Len(content) THEN content[i]
        ELSE NulTok]

InFlight(c, op, pc) == c \in DOMAIN procs /\ procs[c].op = op /\ procs[c].pc = pc

\* set, line 86: cache_data = {'timestamp': time.time(), 'data': data}
SetBegin(c, data) ==
    /\ c \notin DOMAIN procs
    /\ procs' = procs @@ (c :> [op |-> "set", pc |-> "open", data |-> data, at |-> now,
                                off |-> 0])
    /\ UNCHANGED <<now, files, ret, written, calls>>

\* an open that keeps the content of an existing file
SetOpenKeeping(c) ==
    /\ InFlight(c, "set", "open")
    /\ files' = IF CachePath(RaceKey) \in DOMAIN files THEN files
                ELSE PutFile(files, CachePath(RaceKey), <<>>)
    /\ procs' = [procs EXCEPT ![c].pc = "write"]
    /\ UNCHANGED <<now, ret, written, calls>>

\* set, line 90: open(cache_path, 'w') creates the file or truncates it
SetOpen(c) ==
    /\ InFlight(c, "set", "open")
    /\ files' = PutFile(files, CachePath(RaceKey), <<>>)
    /\ procs' = [procs EXCEPT ![c].pc = "write"]
    /\ UNCHANGED <<now, ret, written, calls>>

\* set, line 91: json.dump writes the next n tokens of the record at the caller's own
\* file offset; a file unlinked since the open takes the write out of sight
SetWrite(c, n) ==
    LET p == CachePath(RaceKey)
        record == CacheRecord(procs[c].data, procs[c].at)
        off == procs[c].off
    IN  /\ InFlight(c, "set", "write")
        /\ off < Len(record)
        /\ n \in {ChunkTokens, Len(record) - off}
        /\ n <= Len(record) - off
        /\ files' = IF p \in DOMAIN files
                    THEN PutFile(files, p, WriteAt(files[p], off, SubSeq(record, off + 1, off + n)))
                    ELSE files
        /\ procs' = [procs EXCEPT ![c].off = off + n]
        /\ UNCHANGED <<now, ret, written, calls>>

\* set: the with block closes the file and set returns
SetClose(c) ==
    /\ InFlight(c, "set", "write")
    /\ procs[c].off = Len(CacheRecord(procs[c].data, procs[c].at))
    /\ procs' = [procs EXCEPT ![c].pc = "done"]
    /\ ret' = [op |-> "set", key |-> RaceKey, at |-> procs[c].at, io |-> "ok",
               raised |-> FALSE, data |-> procs[c].data, caller |-> c]
    /\ UNCHANGED <<now, files, written, calls>>

NextWriters ==
    \/ \E c \in Writers, data \in RacePayloads : SetBegin(c, data)
    \/ \E c \in Writers : SetOpen(c)
    \/ \E c \in Writers, n \in 1..(2 * ChunkTokens) : SetWrite(c, n)
    \/ \E c \in Writers : SetClose(c)
    \/ \E d \in TickSteps : Tick(d)

SpecWriters == Init /\ [][NextWriters]_vars

(* A get beside one concurrent set or clear *)

\* get is entered
GetBegin(c) ==
    /\ c \notin DOMAIN procs
    /\ procs' = procs @@ (c :> [op |-> "get", pc |-> "stat", buf |-> <<>>, opened |-> <<>>])
    /\ UNCHANGED <<now, files, ret, written, calls>>

\* get returns v
GetReturn(c, v) ==
    /\ procs' = [procs EXCEPT ![c].pc = "done"]
    /\ ret' = [op |-> "get", key |-> RaceKey, at |-> now, io |-> "ok", raised |-> FALSE,
               val |-> v]

\* get, line 60: if not cache_path.exists(): return None
GetStat(c) ==
    /\ InFlight(c, "get", "stat")
    /\ IF CachePath(RaceKey) \in DOMAIN files
       THEN procs' = [procs EXCEPT ![c].pc = "open"] /\ UNCHANGED ret
       ELSE GetReturn(c, PyNone)
    /\ UNCHANGED <<now, files, written, calls>>

\* get, line 64: open(cache_path, 'r'); the FileNotFoundError of a file unlinked since
\* the stat is caught as an IOError
GetOpen(c) ==
    /\ InFlight(c, "get", "open")
    /\ IF CachePath(RaceKey) \in DOMAIN files
       THEN /\ procs' = [procs EXCEPT ![c].pc = "read",
                                      ![c].opened = files[CachePath(RaceKey)]]
            /\ UNCHANGED ret
       ELSE GetReturn(c, PyNone)
    /\ UNCHANGED <<now, files, written, calls>>

\* get, line 65: json.load calls f.read(), which calls read(2) at the caller's offset
\* until it answers nothing.  An unlinked file keeps the content it was opened with.
GetRead(c) ==
    LET p == CachePath(RaceKey)
        content == IF p \in DOMAIN files THEN files[p] ELSE procs[c].opened
        off == Len(procs[c].buf)
    IN  /\ InFlight(c, "get", "read")
        /\ procs' = IF off < Len(content)
                    THEN [procs EXCEPT ![c].buf = @ \o SubSeq(content, off + 1, Len(content))]
                    ELSE [procs EXCEPT ![c].pc = "parse"]
        /\ UNCHANGED <<now, files, ret, written, calls>>

\* get, lines 65-79: json.load parses what was read; then the age check and the return
GetFinish(c) ==
    /\ InFlight(c, "get", "parse")
    /\ GetReturn(c, CacheGet((CachePath(RaceKey) :> procs[c].buf), RaceKey, now, "ok").val)
    /\ UNCHANGED <<now, files, written, calls>>

\* clear, line 99: glob lists the files
ClearGlob(c, order) ==
    /\ c \notin DOMAIN procs
    /\ procs' = procs @@ (c :> [op |-> "clear", pc |-> "unlink", order |-> order, i |-> 1])
    /\ UNCHANGED <<now, files, ret, written, calls>>

\* clear, line 100: file.unlink() of the next file, or the return after the last
ClearUnlink(c) ==
    /\ InFlight(c, "clear", "unlink")
    /\ IF procs[c].i <= Len(procs[c].order)
       THEN /\ files' = RemoveFiles(files, {procs[c].order[procs[c].i]})
            /\ procs' = [procs EXCEPT ![c].i = @ + 1]
       ELSE /\ procs' = [procs EXCEPT ![c].pc = "done"]
            /\ UNCHANGED files
    /\ UNCHANGED <<now, ret, written, calls>>

\* the entry stored before the concurrent calls begin
StoreBefore(data) ==
    /\ DOMAIN procs = {}
    /\ RaceKey \notin DOMAIN written
    /\ SetCall(RaceKey, data, IoOk)

NextReader ==
    \/ \E data \in Payloads : StoreBefore(data)
    \/ GetBegin("r")
    \/ GetStat("r")
    \/ GetOpen("r")
    \/ GetRead("r")
    \/ GetFinish("r")
    \/ \E data \in RacePayloads : "cl" \notin DOMAIN procs /\ SetBegin("w1", data)
    \/ SetOpen("w1")
    \/ \E n \in 1..(2 * ChunkTokens) : SetWrite("w1", n)
    \/ SetClose("w1")
    \/ \E order \in GlobOrders(DOMAIN files) : "w1" \notin DOMAIN procs /\ ClearGlob("cl", order)
    \/ ClearUnlink("cl")
    \/ \E d \in TickSteps : Tick(d)

SpecReader == Init /\ [][NextReader]_vars

----------------------------------------------------------------------------
(* Claims about the cache store *)

(* C1: the entry that the last set(k, v) wrote at time T (no later set or  *)
(* clear on k) is returned by a get(k) at T + D when D < the expiry window *)
(* of 5 minutes, and get(k) returns None when D >= the window, also at     *)
(* D = the window exactly; earlier reads do not change this.               *)
C1_CacheExpiry ==
    \A k \in DOMAIN written :
        CacheGet(files, k, now, "ok") =
            Returns(IF now - written[k].at < ExpiryWindow THEN written[k].data ELSE PyNone)

\* a get exactly one window after the set missed, on an entry read before
C1_Witness ==
    /\ ret.op = "get" /\ ret.at = now /\ ret.key \in DOMAIN written
    /\ ret.at - written[ret.key].at = ExpiryWindow
    /\ written[ret.key].read
    /\ ret.val = PyNone

(* C2: a get(k) that follows a set(k, v) with no call in between, less     *)
(* than the expiry window later, returns v, whatever calls came before;    *)
(* so after set(k, v1) and set(k, v2) it returns v2.                       *)
C2_RoundTrip ==
    [][(ret.op = "set" /\ ret'.op = "get" /\ ret'.key = ret.key
            /\ ret'.at - ret.at < ExpiryWindow)
        => (~ret'.raised /\ ret'.val = ret.data)]_vars

\* a get returned the data of a set that had replaced other data under the key
C2_Witness ==
    /\ ret.op = "get" /\ ret.at = now /\ ret.key \in DOMAIN written
    /\ written[ret.key].replaced
    /\ written[ret.key].at = ret.at
    /\ ret.val = written[ret.key].data

(* C3: a set(k1, v) leaves the file of every other key k2 (another file    *)
(* name) as it was, and get(k2) returns the same before and after it.      *)
C3_Isolation ==
    [][(ret'.op = "set" /\ now' = now) =>
        \A k2 \in CacheKeys :
            (k2 # ret'.key /\ CachePath(k2) # CachePath(ret'.key)) =>
                /\ CachePath(k2) \in DOMAIN files' <=> CachePath(k2) \in DOMAIN files
                /\ CachePath(k2) \in DOMAIN files =>
                        files'[CachePath(k2)] = files[CachePath(k2)]
                /\ CacheGet(files', k2, now', "ok") = CacheGet(files, k2, now, "ok")]_vars

\* after a set on one key, a get of another key still hits its own entry
C3_Witness ==
    /\ ret.op = "set" /\ ret.at = now
    /\ \E k2 \in DOMAIN written :
        /\ k2 # ret.key
        /\ written[k2].data # ret.data
        /\ CacheGet(files, k2, now, "ok") = Returns(written[k2].data)

-----------------------------------------------------------------------------
(* Claims about the adapters *)

\* the facade operations that hand the call to one adapter method
AdapterOps ==
    {"get_bitcoin_price", "get_market_data", "get_historical_data", "get_global_metrics"}

\* the entry under key k is a fresh one at time t
FreshEntry(w, k, t) == k \in DOMAIN w /\ t - w[k].at < ExpiryWindow

\* C4: every adapter operation follows the cache-aside protocol under its key.  When the
\* cache holds a fresh entry under the key, the call returns that entry and makes no
\* upstream request and leaves the cache as it is; when it holds none and the live
\* fetch succeeds, the call makes one request, returns the result and stores it under the
\* key; and a repeat of the operation within the expiry window of that fetch returns an
\* equal result without a second request.
C4_CacheAside ==
    [][(calls' = calls + 1 /\ ret'.op \in AdapterOps /\ ret'.key # "") =>
        LET k == ret'.key
        IN  /\ ~ret'.raised
            /\ FreshEntry(written, k, now) =>
                    /\ ret'.val = written[k].data
                    /\ ret'.requests = 0
                    /\ files' = files
            /\ (~FreshEntry(written, k, now) /\ ret'.up = "ok") =>
                    /\ ret'.requests = 1
                    /\ ret'.val # PyNone
                    /\ written'[k].at = now /\ written'[k].data = ret'.val
                    /\ CacheGet(files', k, now, "ok") = Returns(ret'.val)
            /\ (ret.op = ret'.op /\ ret.key = k /\ ret.requests = 1 /\ ret.val # PyNone
                    /\ ret'.at - ret.at < ExpiryWindow) =>
                    /\ ret'.val = ret.val
                    /\ ret'.requests = 0]_vars

\* an adapter operation answered from an entry stored by an earlier call, one second
\* before the entry expires
C4_Witness ==
    /\ ret.op \in AdapterOps
    /\ ret.key \in DOMAIN written
    /\ ret.requests = 0
    /\ ret.val = written[ret.key].data
    /\ ret.at - written[ret.key].at = ExpiryWindow - 1

----------------------------------------------------------------------------
(* Claims about the aggregator *)

\* the call was aggregate_to_timeframe with a label of the Timeframe Table
Aggregated == ret.op = "aggregate_to_timeframe" /\ ret.timeframe \in DOMAIN TIMEFRAMES

\* the bucket width of the call, in seconds
Width == TIMEFRAMES[ret.timeframe] * 60

\* floor(timestamp / width) * width
BucketStart(timestamp) == (timestamp \div Width) * Width

\* the positions of the input points that fall in bucket b
PointsOf(b) == {i \in 1..Len(ret.prices) : BucketStart(ret.prices[i][1]) = b}

First(I) == CHOOSE i \in I : \A j \in I : i <= j

Last(I) == CHOOSE i \in I : \A j \in I : j <= i

(* C5: for every label of the Timeframe Table and every sequence of        *)
(* (timestamp, price) points, aggregate_to_timeframe returns exactly one   *)
(* candle per distinct bucketStart = floor(timestamp / (minutes*60)) *     *)
(* (minutes*60); its open is the price of the bucket's first point in      *)
(* input order, its close that of the last, its high and low the maximum   *)
(* and minimum price of the bucket's points, its count their number, and   *)
(* its volume 0.                                                           *)
C5_Bucketing ==
    Aggregated =>
        LET buckets == {BucketStart(ret.prices[i][1]) : i \in 1..Len(ret.prices)}
        IN  /\ Len(ret.val) = Cardinality(buckets)
            /\ {ret.val[j].timestamp : j \in 1..Len(ret.val)} = buckets
            /\ \A j \in 1..Len(ret.val) :
                LET c == ret.val[j]
                    I == PointsOf(c.timestamp)
                IN  /\ c.open = ret.prices[First(I)][2]
                    /\ c.close = ret.prices[Last(I)][2]
                    /\ \E i \in I : c.high = ret.prices[i][2]
                    /\ \E i \in I : c.low = ret.prices[i][2]
                    /\ \A i \in I : c.low <= ret.prices[i][2] /\ ret.prices[i][2] <= c.high
                    /\ c.count = Cardinality(I)
                    /\ c.volume = 0

\* the example: 1h and [(0,100),(1800,110),(3600,90)]
C5_Witness ==
    /\ ret.op = "aggregate_to_timeframe"
    /\ ret.timeframe = "1h"
    /\ ret.prices = <<(<<0, 100>>), (<<1800, 110>>), (<<3600, 90>>)>>
    /\ ret.val = << [timestamp |-> 0, open |-> 100, high |-> 110, low |-> 100,
                     close |-> 110, volume |-> 0, count |-> 2],
                    [timestamp |-> 3600, open |-> 90, high |-> 90, low |-> 90,
                     close |-> 90, volume |-> 0, count |-> 1] >>

\* the input with its points rearranged by the permutation f
Permuted(prices, f) == [i \in 1..Len(prices) |-> prices[f[i]]]

\* f is a permutation of 1..n
IsPermutation(f, n) == \A i \in 1..n : \E j \in 1..n : f[j] = i

\* f keeps the points of each bucket in their relative order
KeepsBucketOrder(f) ==
    \A i, j \in 1..Len(ret.prices) :
        (i < j /\ BucketStart(ret.prices[f[i]][1]) = BucketStart(ret.prices[f[j]][1]))
            => f[i] < f[j]

(* C6: the candles aggregate_to_timeframe returns are strictly ascending   *)
(* by bucketStart, whatever the order of the input; and an input permuted  *)
(* so that the points of each bucket keep their relative order gives the   *)
(* same output.                                                            *)
C6_Ordering ==
    Aggregated =>
        /\ \A j \in 1..(Len(ret.val) - 1) : ret.val[j].timestamp < ret.val[j + 1].timestamp
        /\ \A f \in [1..Len(ret.prices) -> 1..Len(ret.prices)] :
            (IsPermutation(f, Len(ret.prices)) /\ KeepsBucketOrder(f))
                => AggregateToTimeframe(Permuted(ret.prices, f), ret.timeframe) = ret.val

\* a later bucket came first in the input and the output is in ascending order
C6_Witness ==
    /\ Aggregated
    /\ Len(ret.val) = 3
    /\ BucketStart(ret.prices[1][1]) > BucketStart(ret.prices[2][1])
    /\ BucketStart(ret.prices[2][1]) > BucketStart(ret.prices[3][1])
    /\ ret.val[1].timestamp < ret.val[2].timestamp

(* C7: every candle aggregate_to_timeframe returns has low <= open <= high *)
(* and low <= close <= high, count >= 1, and a bucketStart that is a       *)
(* multiple of the bucket width in seconds.                                *)
C7_WellFormed ==
    Aggregated =>
        \A j \in 1..Len(ret.val) :
            LET c == ret.val[j]
            IN  /\ c.low <= c.open /\ c.open <= c.high
                /\ c.low <= c.close /\ c.close <= c.high
                /\ c.count >= 1
                /\ c.timestamp % Width = 0

\* a candle of three unordered points, open and close strictly inside low..high,
\* in a bucket before the epoch
C7_Witness ==
    /\ Aggregated
    /\ \E j \in 1..Len(ret.val) :
        /\ ret.val[j].count = 3
        /\ ret.val[j].low < ret.val[j].open
        /\ ret.val[j].close < ret.val[j].high
        /\ ret.val[j].timestamp < 0

(* C8: for a label outside the Timeframe Table, such as "2h",              *)
(* aggregate_to_timeframe returns the empty sequence of candles and        *)
(* raises nothing, whatever the input.                                     *)
C8_InvalidTimeframe ==
    (ret.op = "aggregate_to_timeframe" /\ ret.timeframe \notin DOMAIN TIMEFRAMES)
        => (ret.val = <<>> /\ ~ret.raised)

\* "2h" with a non-empty input returned no candle
C8_Witness ==
    /\ ret.op = "aggregate_to_timeframe"
    /\ ret.timeframe = "2h"
    /\ Len(ret.prices) = MaxPoints
    /\ ret.val = <<>>

(* C9: for a prices series of length n and a volumes series of length m,   *)
(* _process_historical_to_ohlcv returns n candles in input order, candle i *)
(* with open = high = low = close = price i and volume = the i-th volume   *)
(* when i <= m (counted from 1) and 0 otherwise.                           *)
C9_PerPointCandles ==
    ret.op = "_process_historical_to_ohlcv" =>
        LET prices == DictGet(ret.data, "prices", JList(<<>>)).items
            volumes == DictGet(ret.data, "volumes", JList(<<>>)).items
        IN  /\ ~ret.raised
            /\ ret.val.t = "list"
            /\ Len(ret.val.items) = Len(prices)
            /\ \A i \in 1..Len(prices) :
                LET c == ret.val.items[i]
                    price == prices[i].items[2]
                IN  /\ DictGet(c, "open", PyNone) = price
                    /\ DictGet(c, "high", PyNone) = price
                    /\ DictGet(c, "low", PyNone) = price
                    /\ DictGet(c, "close", PyNone) = price
                    /\ DictGet(c, "volume", PyNone) =
                          IF i <= Len(volumes) THEN volumes[i].items[2] ELSE JNum(0)

\* the example: one point (t, 50000) and no volume series
C9_Witness ==
    /\ ret.op = "_process_historical_to_ohlcv"
    /\ ret.data = JDict(<<"prices">>, <<JList(<<JPair(1000, 50000)>>)>>)
    /\ ret.val = JList(<<JDict(<<"timestamp", "open", "high", "low", "close", "volume">>,
                               <<JIso(1, 0), JNum(50000), JNum(50000), JNum(50000),
                                 JNum(50000), JNum(0)>>)>>)

----------------------------------------------------------------------------
(* Claims about failures *)

(* C10: an I/O error at any step of DataCache.get, set or clear is never   *)
(* raised to the caller: get returns None, set and clear return normally.  *)
C10_CacheNeverRaises ==
    (ret.op \in {"get", "set", "clear"} /\ ret.io # "ok") =>
        /\ ~ret.raised
        /\ ret.op = "get" => ret.val = PyNone

\* what the call of ret returns on a working cache that is empty
LiveValue ==
    IF ret.op = "get_bitcoin_price"
    THEN GetBitcoinPrice(<<>>, <<>>, ret.at, ret.arg[1], ret.up, "ok", IoOk).val
    ELSE GetOhlcv(<<>>, <<>>, ret.at, ret.arg[1], ret.up, "ok", IoOk).val

\* C11: while the cache storage is failing (every read misses or fails, every write
\* fails), get_bitcoin_price and get_ohlcv do not raise and return what they return on
\* a working empty cache whenever the upstream call succeeds.
C11_LiveValueDespiteOutage ==
    (ret.op \in {"get_bitcoin_price", "get_ohlcv"} /\ ret.up = "ok") =>
        /\ ~ret.raised
        /\ ret.val = LiveValue


\* C12: a facade call whose upstream request fails after a cache miss returns None,
\* raises nothing and leaves every cache file as it was: nothing is written under the
\* key and a stale entry under it stays.
C12_LiveFetchFailure ==
    [][(calls' = calls + 1 /\ ret'.op # "clear_cache" /\ ret'.up = "error") =>
        /\ ~ret'.raised
        /\ ret'.val = PyNone
        /\ ret'.requests = 1
        /\ files' = files
        /\ written' = written]_vars

\* a failed fetch that found an expired entry under its key and left it in place
C12_Witness ==
    /\ ret.op \in AdapterOps
    /\ ret.up = "error"
    /\ ret.val = PyNone
    /\ ret.key \in DOMAIN written
    /\ ret.at - written[ret.key].at >= ExpiryWindow
    /\ CachePath(ret.key) \in DOMAIN files
    /\ files[CachePath(ret.key)] = CacheRecord(written[ret.key].data, written[ret.key].at)


\* C13: after a clear_cache that met no removal error, get misses on every key, whatever
\* was stored before, and the next call of an adapter operation makes a live upstream
\* request.
C13_ClearRemovesAll ==
    [][/\ (calls' = calls + 1 /\ ret'.op = "clear_cache") =>
            \A k \in CacheKeys : CacheGet(files', k, now, "ok") = Returns(PyNone)
       /\ (calls' = calls + 1 /\ ret.op = "clear_cache" /\ ret'.op \in AdapterOps
                /\ ret'.key # "") =>
            ret'.requests = 1]_vars

\* a clear_cache that removed two fresh entries
C13_Witness ==
    /\ ret.op = "clear_cache"
    /\ ret.removed = 2
    /\ ret.at < ExpiryWindow


\* the call of record r names a source or a timeframe the facade does not support
Unsupported(r) ==
    \/ r.op \in {"get_bitcoin_price", "get_market_data"}
            /\ r.arg[1] \notin {"coingecko", "coinmarketcap"}
    \/ r.op = "get_historical_data" /\ r.arg[1] # "coingecko"
    \/ r.op = "get_ohlcv" /\ r.arg[1] \notin DOMAIN TIMEFRAMES

BothWritten ==
    \A c \in Writers : InFlight(c, "set", "done") /\ now - procs[c].at < ExpiryWindow

\* C15: once two concurrent set calls on one key have both returned, a get within the
\* expiry window returns the whole payload of the call that returned last: not a miss
\* and not a mixture of the two.
C15_LastWriterWins ==
    BothWritten => CacheGet(files, RaceKey, now, "ok") = Returns(ret.data)


\* C16: a get that interleaves with one concurrent set or clear of another caller does
\* not raise and returns the payload stored before (while that is fresh), the payload of
\* the concurrent set, or None: never a part or a mixture of payloads.
C16_ConcurrentGet ==
    (ret.op = "get" /\ InFlight("r", "get", "done")) =>
        /\ ~ret.raised
        /\ \/ ret.val = PyNone
           \/ FreshEntry(written, RaceKey, ret.at) /\ ret.val = written[RaceKey].data
           \/ "w1" \in DOMAIN procs /\ ret.val = procs["w1"].data

\* a get that missed beside a fresh entry, because it read the file between the
\* truncation and the last write of a concurrent set
C16_Witness ==
    /\ ret.op = "get"
    /\ InFlight("r", "get", "done")
    /\ ret.val = PyNone
    /\ FreshEntry(written, RaceKey, ret.at)
    /\ InFlight("w1", "set", "write")


\* C17: for every label of the timeframe table get_ohlcv returns a candle result
\* whenever the upstream historical fetch does not fail; None is returned only for labels
\* outside the table or after a failed fetch.
C17_OhlcvCoverage ==
    (ret.op = "get_ohlcv" /\ ret.arg[1] \in DOMAIN TIMEFRAMES /\ ret.up # "error") =>
        /\ ret.val # PyNone
        /\ DictGet(ret.val, "ohlcv", PyNone).t = "list"

\* the time of the upstream answer a get_ohlcv result was computed from: the provider's
\* newest point carries the time of the answer
FetchedAt(val) ==
    LET ohlcv == DictGet(val, "ohlcv", JList(<<>>)).items
    IN  DictGet(ohlcv[Len(ohlcv)], "timestamp", PyNone).n

\* C18: every result get_ohlcv returns was computed from an upstream historical fetch
\* made less than one expiry window before the return.
C18_OhlcvFreshness ==
    (ret.op = "get_ohlcv" /\ ret.val # PyNone) =>
        ret.at - FetchedAt(ret.val) < ExpiryWindow

\* C19: get changes no file: not on a hit, not on a miss of an absent key, not on a miss
\* of an expired entry, whose file keeps the record the set wrote, with its timestamp.
C19_GetReadOnly ==
    [][(ret'.op = "get" /\ ret' # ret) =>
        /\ files' = files
        /\ ret'.key \in DOMAIN written =>
                /\ CachePath(ret'.key) \in DOMAIN files'
                /\ files'[CachePath(ret'.key)] =
                        CacheRecord(written[ret'.key].data, written[ret'.key].at)]_vars

\* a get that missed on an expired entry, whose file is still in the directory
C19_Witness ==
    /\ ret.op = "get"
    /\ ret.val = PyNone
    /\ ret.key \in DOMAIN written
    /\ ret.at - written[ret.key].at >= ExpiryWindow
    /\ CachePath(ret.key) \in DOMAIN files

\* C20: every facade call makes at most one upstream request; a request that fails is
\* the only one of its call, which ends with None.
C20_NoRetry ==
    (ret.op \notin {"none", "clear_cache"}) =>
        /\ ret.requests <= 1
        /\ ret.up = "error" => (ret.requests = 1 /\ ret.val = PyNone /\ ~ret.raised)

\* a get_ohlcv whose one historical request failed
C20_Witness ==
    /\ ret.op = "get_ohlcv"
    /\ ret.up = "error"
    /\ ret.requests = 1
    /\ ret.val = PyNone

\* C21: a clear during which the removal of some entries fails does not raise and still
\* removes every entry whose removal does not fail: the files left are those that
\* failed, and get misses on every key but theirs.
C21_ClearBestEffort ==
    ret.op = "clear" =>
        /\ ~ret.raised
        /\ DOMAIN files = ret.before \cap ret.failing
        /\ \A k \in CacheKeys :
                CachePath(k) \notin ret.failing => CacheGet(files, k, now, "ok") = Returns(PyNone)

=============================================================================
